---- MODULE Spec2Model ----
(***************************************************************************)
(* Model of the real-time hub of the chat application: the three WebSocket *)
(* consumers of chat/consumers.py (ChatConsumer, GlobalChatConsumer,       *)
(* CallConsumer), the Message / Call models of chat/models.py they mutate, *)
(* and the REST mark-read views of chat/views.py.                          *)
(*                                                                         *)
(* One action models one whole handler (connect, disconnect, one branch of *)
(* receive, one REST view).  The channel layer's group table is the        *)
(* variable groups; a group_send runs, for every member of the group, the  *)
(* handler method its consumer class defines for the event type, and what  *)
(* that handler writes to its socket is appended to delivered.             *)
(***************************************************************************)
EXTENDS Integers, Sequences, FiniteSets, TLC

\* ------------------------------------------------------------------ bounds
MaxConns == 2      \* connection handles 1..MaxConns
MaxMsgs  == 2      \* Message rows
MaxGlobalMsgs == 1 \* GlobalChatMessage rows
MaxCalls == 1      \* Call rows
MaxClock == 2      \* timezone.now() ranges over 1..MaxClock
MaxBusyCalls == 2  \* Call rows, where a second Call is what is looked at

\* ------------------------------------------------------- fixed environment
Anon  == "anon"                     \* AnonymousUser (is_authenticated False)
Users == {"u1", "u2", "u3"}         \* rows of the User table
Identities == Users \cup {Anon}
Convs == {"c1", "c2"}               \* rows of the Conversation table
NoConv == "cx"                      \* a well-formed id with no Conversation row
GlobalId == "global"                \* the call endpoint's global-listener id
ConvIds == Convs \cup {NoConv}
Streams == {"s1"}                    \* rows of the LiveStream table
NoUser == "ux"                      \* a well-formed id with no User row

\* Conversation.participants (models.py:12); never changed by the hub
participants(cid) ==
    IF cid = "c1" THEN {"u1", "u2"}
    ELSE IF cid = "c2" THEN {"u2", "u3"}
    ELSE {}

Conns == 1..MaxConns

VARIABLES
    conns,            \* conns[c]: the consumer object behind handle c
    groups,           \* channel layer: group name -> set of handles
    messages,         \* Message table, in creation order (id = index)
    last_message,     \* Conversation.last_message (0 = NULL)
    global_messages,  \* GlobalChatMessage table
    calls,            \* Call table (id = index)
    now,              \* timezone.now()
    sent,             \* the group_send calls of the last step, in order
    delivered,        \* delivered[c]: what handle c wrote to its client in the last step
    last,             \* the last step: operation, caller and arguments
    inflight,         \* inflight[c]: the handler of handle c that is suspended
                      \* between two of its steps, and its local variables
    stream_conns,     \* stream_conns[c]: attributes of a LiveStreamConsumer
    livestream        \* LiveStream table: stream id -> row

vars == <<conns, groups, messages, last_message, global_messages, calls,
          now, sent, delivered, last, inflight, stream_conns, livestream>>

\* the state of the handlers that are modelled step by step and of the
\* livestream hub; the handlers modelled as one step leave it alone
step_vars == <<inflight, stream_conns, livestream>>

\* ---------------------------------------------------------------- events
Ev(type, user, conv, ref, body) ==
    [type |-> type, user |-> user, conv |-> conv, ref |-> ref, body |-> body]

Op(op, conn, user, conv, ref, body, ok) ==
    [op |-> op, conn |-> conn, user |-> user, conv |-> conv, ref |-> ref,
     body |-> body, ok |-> ok]

\* ----------------------------------------------------------- group names
ChatGroup(cid)     == <<"chat", cid>>
UserGroup(uid)     == <<"user", uid>>
GlobalChatGroup    == <<"global_chat", "">>
CallGroup(cid)     == <<"call", cid>>
UserCallGroup(uid) == <<"user_call", uid>>
LiveGroup(sid)     == <<"livestream", sid>>

GroupNames ==
    ({"chat", "call"} \X (ConvIds \cup {GlobalId}))
    \cup ({"user", "user_call"} \X (Identities \cup {NoUser}))
    \cup {GlobalChatGroup}
    \cup ({"livestream"} \X Streams)

\* channel_layer.group_add / group_discard on a group table g
group_add(g, name, ch)     == [g EXCEPT ![name] = @ \cup {ch}]
group_discard(g, name, ch) == [g EXCEPT ![name] = @ \ {ch}]

NewConn == [status |-> "new", endpoint |-> "", user |-> "", conv |-> ""]

NoDelivery == [c \in Conns |-> <<>>]

\* -------------------------------------------- consumer event-handler methods
\* Each returns what the consumer of user u writes to its socket for event e.

\* ChatConsumer.chat_message / message_read / conversation_update
Chat_chat_message(u, e)        == <<e>>
Chat_message_read(u, e)        == <<e>>
Chat_conversation_update(u, e) == <<e>>

\* a handler that forwards to the originator too (no identity test)
typing_indicator_echo(u, e) == <<e>>

\* ChatConsumer.typing_indicator and GlobalChatConsumer.typing_indicator:
\* "Don't send typing indicator to the user who is typing"
typing_indicator(u, e) == IF u # e.user THEN <<e>> ELSE <<>>

\* GlobalChatConsumer.chat_message / user_joined / user_left
Global_chat_message(u, e) == <<e>>
user_joined(u, e) == IF u # e.user THEN <<e>> ELSE <<>>
user_left(u, e)   == IF u # e.user THEN <<e>> ELSE <<>>

\* CallConsumer.incoming_call / call_accepted / call_rejected / call_ended /
\* webrtc_offer / webrtc_answer / webrtc_ice_candidate
Call_forward(u, e) == <<e>>

\* LiveStreamConsumer.broadcast_viewer_count: writes a viewer_count event
broadcast_viewer_count(u, e) == <<[e EXCEPT !.type = "viewer_count"]>>

\* dispatch of a channel-layer event to the method named by its type
Handle(cn, c, e) ==
    LET u == cn[c].user IN
    CASE cn[c].endpoint = "chat" ->
            (CASE e.type = "chat_message"        -> Chat_chat_message(u, e)
               [] e.type = "message_read"        -> Chat_message_read(u, e)
               [] e.type = "typing_indicator"    -> typing_indicator(u, e)
               [] e.type = "conversation_update" -> Chat_conversation_update(u, e)
               [] OTHER -> <<>>)
      [] cn[c].endpoint = "global" ->
            (CASE e.type = "chat_message"     -> Global_chat_message(u, e)
               [] e.type = "user_joined"      -> user_joined(u, e)
               [] e.type = "user_left"        -> user_left(u, e)
               [] e.type = "typing_indicator" -> typing_indicator(u, e)
               [] OTHER -> <<>>)
      [] cn[c].endpoint = "call" ->
            (CASE e.type \in {"incoming_call", "call_accepted", "call_rejected",
                              "call_ended", "webrtc_offer", "webrtc_answer",
                              "webrtc_ice_candidate"} -> Call_forward(u, e)
               [] OTHER -> <<>>)
      [] cn[c].endpoint = "livestream" ->
            (CASE e.type = "broadcast_viewer_count" -> broadcast_viewer_count(u, e)
               [] OTHER -> <<>>)
      [] OTHER -> <<>>

Send(name, e) == [group |-> name, event |-> e]

\* channel_layer.group_send for each entry of sends, in order, on group table g:
\* the socket output of handle c
RECURSIVE Fanout(_, _, _, _)
Fanout(g, cn, sends, c) ==
    IF sends = <<>> THEN <<>>
    ELSE (IF c \in g[Head(sends).group]
             THEN Handle(cn, c, Head(sends).event) ELSE <<>>)
         \o Fanout(g, cn, Tail(sends), c)

\* socket output of every handle after one handler of handle self ran:
\* its own self.send calls first, then the group sends
Output(g, cn, self, direct, sends) ==
    [c \in Conns |-> (IF c = self THEN direct ELSE <<>>) \o Fanout(g, cn, sends, c)]

EstablishedEv == Ev("connection_established", "", "", 0, "")
ErrorEv(text) == Ev("error", "", "", 0, text)

\* no handler of the handle is suspended
Idle == [pc |-> "idle", val |-> 0]

\* LiveStreamConsumer.connect: is_streamer and is_counted start False;
\* identified records what the client said in its identify events ("viewer"
\* once it has identified as a viewer)
NoStreamConn == [is_streamer |-> FALSE, is_counted |-> FALSE, identified |-> "none"]

\* ------------------------------------------------------------------- Init
Init ==
    /\ conns = [c \in Conns |-> NewConn]
    /\ groups = [n \in GroupNames |-> {}]
    /\ messages = <<>>
    /\ last_message = [cid \in Convs |-> 0]
    /\ global_messages = <<>>
    /\ calls = <<>>
    /\ now = 1
    /\ sent = <<>>
    /\ delivered = NoDelivery
    /\ last = Op("init", 0, "", "", 0, "", TRUE)
    /\ inflight = [c \in Conns |-> Idle]
    /\ stream_conns = [c \in Conns |-> NoStreamConn]
    /\ livestream = [s \in Streams |-> [viewer_count |-> 0, peak_viewers |-> 0]]

\* handles are opened in order: the next handshake gets the lowest unused one
NextHandle(c) ==
    /\ conns[c].status = "new"
    /\ \A d \in Conns : d < c => conns[d].status # "new"

\* a test that treats every identity as authenticated
is_authenticated_any(u) == TRUE

\* user.is_authenticated
is_authenticated(u) == u # Anon

\* ---------------------------------------------------------- ChatConsumer
\* a membership test that admits every authenticated user
check_participant_any(u, cid) == TRUE

\* ChatConsumer.check_participant / CallConsumer.check_participant
check_participant(u, cid) == cid \in Convs /\ u \in participants(cid)

Reject(c, ep, u, cid) ==
    /\ conns' = [conns EXCEPT ![c] =
                    [status |-> "rejected", endpoint |-> ep, user |-> u, conv |-> cid]]
    /\ sent' = <<>>
    /\ delivered' = NoDelivery
    /\ UNCHANGED groups

Admit(c, ep, u, cid) ==
    conns' = [conns EXCEPT ![c] =
                 [status |-> "open", endpoint |-> ep, user |-> u, conv |-> cid]]

\* a connect that joins the conversation group only
Chat_connect_skips_user_group(g, c, u, cid) == group_add(g, ChatGroup(cid), c)

\* ChatConsumer.connect: the group table after the two group_add calls
Chat_connect(g, c, u, cid) ==
    group_add(group_add(g, ChatGroup(cid), c), UserGroup(u), c)

\* ChatConsumer.connect
ChatConnect(c, u, cid) ==
    /\ NextHandle(c)
    /\ last' = Op("connect", c, u, cid, 0, "chat", TRUE)
    /\ IF ~is_authenticated(u) THEN Reject(c, "chat", u, cid)
       ELSE IF ~check_participant(u, cid) THEN Reject(c, "chat", u, cid)
       ELSE /\ groups' = Chat_connect(groups, c, u, cid)
            /\ Admit(c, "chat", u, cid)
            /\ sent' = <<>>
            /\ delivered' = Output(groups', conns', c, <<EstablishedEv>>, <<>>)
    /\ UNCHANGED <<messages, last_message, global_messages, calls, now, step_vars>>

\* a disconnect that leaves the personal group joined
Chat_disconnect_keeps_user_group(g, c, u, cid) == group_discard(g, ChatGroup(cid), c)

\* ChatConsumer.disconnect: the group table after it
Chat_disconnect(g, c, u, cid) ==
    group_discard(group_discard(g, ChatGroup(cid), c), UserGroup(u), c)

ChatDisconnect(c) ==
    /\ conns[c].status # "new"
    /\ conns[c].endpoint = "chat"
    /\ last' = Op("disconnect", c, conns[c].user, conns[c].conv, 0, "chat", TRUE)
    /\ groups' = Chat_disconnect(groups, c, conns[c].user, conns[c].conv)
    /\ conns' = [conns EXCEPT ![c].status = "closed"]
    /\ sent' = <<>>
    /\ delivered' = NoDelivery
    /\ UNCHANGED <<messages, last_message, global_messages, calls, now, step_vars>>

IsOpen(c, ep) == conns[c].status = "open" /\ conns[c].endpoint = ep

Contents == {"hi"}

NewMessage(cid, u, content) ==
    [conversation |-> cid, sender |-> u, content |-> content,
     is_read |-> FALSE, read_at |-> 0]

\* outcomes of the database inside save_message: no failure, a failure before
\* the Message row is written, a failure of conversation.save() after it
DbOutcomes == {"ok", "create_fails", "save_fails"}

\* ChatConsumer.save_message: the Message table after it
save_message_rows(cid, u, content, db) ==
    IF cid \in Convs /\ db # "create_fails"
        THEN Append(messages, NewMessage(cid, u, content))
        ELSE messages

\* a save_message that never moves the last-message pointer
save_message_pointer_stale(cid, u, content, db) == last_message

\* ChatConsumer.save_message: Conversation.last_message after it
save_message_pointer(cid, u, content, db) ==
    IF cid \in Convs /\ db = "ok"
        THEN [last_message EXCEPT ![cid] = Len(messages) + 1]
        ELSE last_message

\* a save_message that returns the Message whatever the database did
save_message_result_optimistic(cid, u, content, db) ==
    IF cid \in Convs THEN Len(messages) + 1 ELSE 0

\* ChatConsumer.save_message: the returned Message id, 0 for None
save_message_result(cid, u, content, db) ==
    IF cid \in Convs /\ db = "ok" THEN Len(messages) + 1 ELSE 0

\* a sequence listing the elements of a finite set
RECURSIVE SetToSeq(_)
SetToSeq(S) ==
    IF S = {} THEN <<>>
    ELSE LET x == CHOOSE y \in S : TRUE IN <<x>> \o SetToSeq(S \ {x})

\* a participant lookup that returns every user
get_conversation_participants_all(cid) == SetToSeq(Users)

\* ChatConsumer.get_conversation_participants
get_conversation_participants(cid) ==
    IF cid \in Convs THEN SetToSeq(participants(cid)) ELSE <<>>

\* ChatConsumer.notify_conversation_update: its group sends
notify_conversation_update(cid, u, content) ==
    LET ps == get_conversation_participants(cid) IN
    [i \in 1..Len(ps) |->
        Send(UserGroup(ps[i]), Ev("conversation_update", u, cid, 0, content))]

\* ChatConsumer.receive, message_type == 'chat_message'
ChatSend(c, content, db) ==
    /\ IsOpen(c, "chat")
    /\ (content # "" /\ db # "create_fails") => Len(messages) < MaxMsgs
    /\ LET u == conns[c].user
           cid == conns[c].conv
           id == save_message_result(cid, u, content, db)
       IN IF content = ""
          THEN /\ last' = Op("chat_message", c, u, cid, 0, content, FALSE)
               /\ sent' = <<>>
               /\ delivered' = Output(groups, conns, c,
                                      <<ErrorEv("Message content is required")>>, <<>>)
               /\ UNCHANGED <<messages, last_message>>
          ELSE /\ messages' = save_message_rows(cid, u, content, db)
               /\ last_message' = save_message_pointer(cid, u, content, db)
               /\ last' = Op("chat_message", c, u, cid, id, content, id # 0)
               /\ IF id # 0
                  THEN /\ sent' = <<Send(ChatGroup(cid),
                                         Ev("chat_message", u, cid, id, content))>>
                                  \o notify_conversation_update(cid, u, content)
                       /\ delivered' = Output(groups, conns, c, <<>>, sent')
                  ELSE /\ sent' = <<>>
                       /\ delivered' = Output(groups, conns, c,
                                              <<ErrorEv("Failed to save message")>>, <<>>)
    /\ UNCHANGED <<conns, groups, global_messages, calls, now, step_vars>>

\* the values timezone.now() can return next: it never goes back and is capped
Times == {t \in now..(now + 1) : t <= MaxClock}

\* the clock after a handler that read it (value t) only if it stamped a row
clock_after(rows, t) == IF rows # messages THEN t ELSE now

\* a mark_as_read that stamps read_at on every call
mark_as_read_restamps(m, t) == [m EXCEPT !.is_read = TRUE, !.read_at = t]

\* Message.mark_as_read
mark_as_read(m, t) ==
    IF ~m.is_read THEN [m EXCEPT !.is_read = TRUE, !.read_at = t] ELSE m

\* ChatConsumer.mark_message_read: the Message table after it
mark_message_read(u, mid, t) ==
    IF mid \in 1..Len(messages) /\ messages[mid].sender # u
        THEN [messages EXCEPT ![mid] = mark_as_read(@, t)]
        ELSE messages

\* message ids a client can name: 0 stands for a missing message_id, and
\* Len(messages) + 1 .. MaxMsgs + 1 for ids with no row
MessageIds == 0..(MaxMsgs + 1)

\* ChatConsumer.receive, message_type == 'mark_read'
ChatMarkRead(c, mid, t) ==
    /\ IsOpen(c, "chat")
    /\ LET u == conns[c].user
           cid == conns[c].conv
       IN /\ last' = Op("mark_read", c, u, cid, mid, "ws", mid # 0)
          /\ IF mid # 0
             THEN /\ messages' = mark_message_read(u, mid, t)
                  /\ now' = clock_after(messages', t)
                  /\ sent' = <<Send(ChatGroup(cid), Ev("message_read", u, cid, mid, ""))>>
             ELSE /\ sent' = <<>>
                  /\ UNCHANGED <<messages, now>>
          /\ delivered' = Output(groups, conns, c, <<>>, sent')
    /\ UNCHANGED <<conns, groups, last_message, global_messages, calls, step_vars>>

TypingValues == {"true", "false"}

\* ChatConsumer.receive, message_type == 'typing'
ChatTyping(c, is_typing) ==
    /\ IsOpen(c, "chat")
    /\ LET u == conns[c].user
           cid == conns[c].conv
       IN /\ last' = Op("typing", c, u, cid, 0, is_typing, TRUE)
          /\ sent' = <<Send(ChatGroup(cid), Ev("typing_indicator", u, cid, 0, is_typing))>>
          /\ delivered' = Output(groups, conns, c, <<>>, sent')
    /\ UNCHANGED <<conns, groups, messages, last_message, global_messages, calls, now, step_vars>>

\* ----------------------------------------------------- GlobalChatConsumer
\* GlobalChatConsumer.connect
GlobalConnect(c, u) ==
    /\ NextHandle(c)
    /\ last' = Op("connect", c, u, "", 0, "global", TRUE)
    /\ IF ~is_authenticated(u) THEN Reject(c, "global", u, "")
       ELSE /\ groups' = group_add(groups, GlobalChatGroup, c)
            /\ Admit(c, "global", u, "")
            /\ sent' = <<Send(GlobalChatGroup, Ev("user_joined", u, "", 0, ""))>>
            /\ delivered' = Output(groups', conns', c, <<EstablishedEv>>, sent')
    /\ UNCHANGED <<messages, last_message, global_messages, calls, now, step_vars>>

\* GlobalChatConsumer.disconnect
GlobalDisconnect(c) ==
    /\ conns[c].status # "new"
    /\ conns[c].endpoint = "global"
    /\ LET u == conns[c].user
       IN /\ last' = Op("disconnect", c, u, "", 0, "global", TRUE)
          /\ sent' = IF is_authenticated(u)
                        THEN <<Send(GlobalChatGroup, Ev("user_left", u, "", 0, ""))>>
                        ELSE <<>>
          /\ delivered' = Output(groups, conns, c, <<>>, sent')
          /\ groups' = group_discard(groups, GlobalChatGroup, c)
          /\ conns' = [conns EXCEPT ![c].status = "closed"]
    /\ UNCHANGED <<messages, last_message, global_messages, calls, now, step_vars>>

GlobalDbOutcomes == {"ok", "create_fails"}

\* GlobalChatConsumer.receive, message_type == 'chat_message', with
\* GlobalChatConsumer.save_message
GlobalSend(c, content, db) ==
    /\ IsOpen(c, "global")
    /\ (content # "" /\ db = "ok") => Len(global_messages) < MaxGlobalMsgs
    /\ LET u == conns[c].user
           id == Len(global_messages) + 1
       IN IF content = ""
          THEN /\ last' = Op("chat_message", c, u, "", 0, content, FALSE)
               /\ sent' = <<>>
               /\ delivered' = Output(groups, conns, c,
                                      <<ErrorEv("Message content is required")>>, <<>>)
               /\ UNCHANGED global_messages
          ELSE IF db = "ok"
          THEN /\ global_messages' =
                      Append(global_messages, [sender |-> u, content |-> content])
               /\ last' = Op("chat_message", c, u, "", id, content, TRUE)
               /\ sent' = <<Send(GlobalChatGroup, Ev("chat_message", u, "", id, content))>>
               /\ delivered' = Output(groups, conns, c, <<>>, sent')
          ELSE /\ last' = Op("chat_message", c, u, "", 0, content, FALSE)
               /\ sent' = <<>>
               /\ delivered' = Output(groups, conns, c,
                                      <<ErrorEv("Failed to save message")>>, <<>>)
               /\ UNCHANGED global_messages
    /\ UNCHANGED <<conns, groups, messages, last_message, calls, now, step_vars>>

\* GlobalChatConsumer.receive, message_type == 'typing'
GlobalTyping(c, is_typing) ==
    /\ IsOpen(c, "global")
    /\ LET u == conns[c].user
       IN /\ last' = Op("typing", c, u, "", 0, is_typing, TRUE)
          /\ sent' = <<Send(GlobalChatGroup, Ev("typing_indicator", u, "", 0, is_typing))>>
          /\ delivered' = Output(groups, conns, c, <<>>, sent')
    /\ UNCHANGED <<conns, groups, messages, last_message, global_messages, calls, now, step_vars>>

\* ------------------------------------------------------- REST mark-read views
\* ConversationViewSet.get_queryset / MessageViewSet.get_queryset: the rows a
\* user can address
visible_conversation(u, cid) == cid \in Convs /\ u \in participants(cid)
visible_message(u, mid) ==
    mid \in 1..Len(messages) /\ u \in participants(messages[mid].conversation)

\* a mark_as_read view without .exclude(sender=request.user)
rest_mark_as_read_all(u, cid, t) ==
    [i \in 1..Len(messages) |->
        IF messages[i].conversation = cid /\ ~messages[i].is_read
            THEN mark_as_read(messages[i], t)
            ELSE messages[i]]

\* ConversationViewSet.mark_as_read: the Message table after it
rest_mark_as_read(u, cid, t) ==
    [i \in 1..Len(messages) |->
        IF /\ messages[i].conversation = cid
           /\ ~messages[i].is_read
           /\ messages[i].sender # u
            THEN mark_as_read(messages[i], t)
            ELSE messages[i]]

RestMarkAsRead(u, cid, t) ==
    /\ last' = Op("mark_as_read", 0, u, cid, 0, "rest", visible_conversation(u, cid))
    /\ IF visible_conversation(u, cid)
          THEN messages' = rest_mark_as_read(u, cid, t) /\ now' = clock_after(messages', t)
          ELSE UNCHANGED <<messages, now>>
    /\ sent' = <<>>
    /\ delivered' = NoDelivery
    /\ UNCHANGED <<conns, groups, last_message, global_messages, calls, step_vars>>

\* MessageViewSet.mark_read: the Message table after it
rest_mark_read(u, mid, t) ==
    IF visible_message(u, mid) /\ messages[mid].sender # u
        THEN [messages EXCEPT ![mid] = mark_as_read(@, t)]
        ELSE messages

RestMarkRead(u, mid, t) ==
    /\ mid # 0
    /\ last' = Op("mark_read", 0, u, "", mid, "rest",
                  visible_message(u, mid) /\ messages[mid].sender # u)
    /\ messages' = rest_mark_read(u, mid, t)
    /\ now' = clock_after(messages', t)
    /\ sent' = <<>>
    /\ delivered' = NoDelivery
    /\ UNCHANGED <<conns, groups, last_message, global_messages, calls, step_vars>>

\* ConversationViewSet.send_message: the request of user u on conversation
\* cid; a conversation outside get_queryset is answered 404, an empty content
\* (no file) 400, both before anything is written or sent
RestSend(u, cid, content) ==
    LET ok == visible_conversation(u, cid) /\ content # ""
        id == Len(messages) + 1
        ps == SetToSeq(IF cid \in Convs THEN participants(cid) ELSE {})
    IN /\ ok => Len(messages) < MaxMsgs
       /\ last' = Op("send_message", 0, u, cid, IF ok THEN id ELSE 0, content, ok)
       /\ IF ok
          THEN /\ messages' = Append(messages, NewMessage(cid, u, content))
               /\ last_message' = [last_message EXCEPT ![cid] = id]
               /\ sent' = <<Send(ChatGroup(cid), Ev("chat_message", u, cid, id, content))>>
                          \o [i \in 1..Len(ps) |->
                                Send(UserGroup(ps[i]),
                                     Ev("conversation_update", u, cid, 0, content))]
          ELSE /\ sent' = <<>>
               /\ UNCHANGED <<messages, last_message>>
       /\ delivered' = Output(groups, conns, 0, <<>>, sent')
       /\ UNCHANGED <<conns, groups, global_messages, calls, now, step_vars>>

\* ------------------------------------------------------------ CallConsumer
\* CallConsumer.connect
CallConnect(c, u, cid) ==
    /\ NextHandle(c)
    /\ last' = Op("connect", c, u, cid, 0, "call", TRUE)
    /\ LET is_global == (cid = GlobalId)
       IN IF ~is_authenticated(u) THEN Reject(c, "call", u, cid)
          ELSE IF ~is_global /\ ~check_participant(u, cid) THEN Reject(c, "call", u, cid)
          ELSE /\ groups' = group_add(
                                IF ~is_global THEN group_add(groups, CallGroup(cid), c)
                                              ELSE groups,
                                UserCallGroup(u), c)
               /\ Admit(c, "call", u, cid)
               /\ sent' = <<>>
               /\ delivered' = Output(groups', conns', c, <<EstablishedEv>>, <<>>)
    /\ UNCHANGED <<messages, last_message, global_messages, calls, now, step_vars>>

\* CallConsumer.disconnect: the group table after it
Call_disconnect(g, c, u, cid) ==
    group_discard(IF cid # GlobalId THEN group_discard(g, CallGroup(cid), c) ELSE g,
                  UserCallGroup(u), c)

CallDisconnect(c) ==
    /\ conns[c].status # "new"
    /\ conns[c].endpoint = "call"
    /\ last' = Op("disconnect", c, conns[c].user, conns[c].conv, 0, "call", TRUE)
    /\ groups' = Call_disconnect(groups, c, conns[c].user, conns[c].conv)
    /\ conns' = [conns EXCEPT ![c].status = "closed"]
    /\ sent' = <<>>
    /\ delivered' = NoDelivery
    /\ UNCHANGED <<messages, last_message, global_messages, calls, now, step_vars>>

CallTypes == {"audio", "video"}
Terminal == {"ended", "rejected", "missed", "failed"}

\* receiver_id / target_user_id values a client can name: "" stands for a
\* missing field, NoUser for an id with no User row
UserIds == Users \cup {NoUser, ""}

\* call_id values a client can name: 0 stands for a missing call_id
CallIds == 0..(MaxCalls + 1)

\* a create_call that stores the two parties the other way round
create_call_swapped(u, cid, receiver_id, call_type, t) ==
    IF cid \in Convs /\ receiver_id \in Users
        THEN <<[conversation |-> cid, caller |-> receiver_id, receiver |-> u,
                call_type |-> call_type, status |-> "ringing", started_at |-> t,
                answered_at |-> 0, ended_at |-> 0, duration |-> 0]>>
        ELSE <<>>

\* CallConsumer.create_call: the rows it inserts, <<>> when it returns None
create_call(u, cid, receiver_id, call_type, t) ==
    IF cid \in Convs /\ receiver_id \in Users
        THEN <<[conversation |-> cid, caller |-> u, receiver |-> receiver_id,
                call_type |-> call_type, status |-> "ringing", started_at |-> t,
                answered_at |-> 0, ended_at |-> 0, duration |-> 0]>>
        ELSE <<>>

CallEv(type, id, call) == Ev(type, call.caller, call.conversation, id, call.status)

\* CallConsumer.handle_call_initiate; the Call table holds at most cap rows
handle_call_initiate(c, receiver_id, call_type, t, cap) ==
    /\ IsOpen(c, "call")
    /\ LET u == conns[c].user
           cid == conns[c].conv
           rows == create_call(u, cid, receiver_id, call_type, t)
           call == rows[1]
           id == Len(calls) + 1
       IN /\ (receiver_id # "" /\ rows # <<>>) => Len(calls) < cap
          /\ IF receiver_id = ""
             THEN /\ last' = Op("call_initiate", c, u, cid, 0, receiver_id, FALSE)
                  /\ sent' = <<>>
                  /\ delivered' = Output(groups, conns, c,
                                         <<ErrorEv("Receiver ID is required")>>, <<>>)
                  /\ UNCHANGED <<calls, now>>
             ELSE IF rows # <<>>
             THEN /\ calls' = calls \o rows
                  /\ now' = t
                  /\ last' = Op("call_initiate", c, u, cid, id, receiver_id, TRUE)
                  /\ sent' = <<Send(UserCallGroup(receiver_id),
                                    CallEv("incoming_call", id, call))>>
                  /\ delivered' = Output(groups, conns, c,
                                         <<CallEv("call_initiated", id, call)>>, sent')
             ELSE /\ last' = Op("call_initiate", c, u, cid, 0, receiver_id, FALSE)
                  /\ sent' = <<>>
                  /\ delivered' = Output(groups, conns, c,
                                         <<ErrorEv("Failed to create call")>>, <<>>)
                  /\ UNCHANGED <<calls, now>>
    /\ UNCHANGED <<conns, groups, messages, last_message, global_messages, step_vars>>

CallInitiate(c, receiver_id, call_type, t) ==
    handle_call_initiate(c, receiver_id, call_type, t, MaxCalls)

\* a mark_accepted that does not stamp answered_at
mark_accepted_unstamped(call, t) == [call EXCEPT !.status = "accepted"]

\* Call.mark_accepted
mark_accepted(call, t) == [call EXCEPT !.status = "accepted", !.answered_at = t]

\* a mark_ended that measures the duration from started_at
mark_ended_from_start(call, t) ==
    [call EXCEPT !.status = "ended", !.ended_at = t, !.duration = t - call.started_at]

\* Call.mark_ended
mark_ended(call, t) ==
    [call EXCEPT !.status = "ended", !.ended_at = t,
                 !.duration = IF call.answered_at # 0 THEN t - call.answered_at
                                                      ELSE call.duration]

\* Call.mark_rejected
mark_rejected(call, t) == [call EXCEPT !.status = "rejected", !.ended_at = t]

\* CallConsumer.accept_call / reject_call / end_call: Call.objects.get
call_exists(id) == id \in 1..Len(calls)

\* CallConsumer.handle_call_accept
CallAccept(c, id, t) ==
    /\ IsOpen(c, "call")
    /\ LET u == conns[c].user
           cid == conns[c].conv
       IN /\ last' = Op("call_accept", c, u, cid, id, "", call_exists(id))
          /\ IF id = 0
             THEN /\ sent' = <<>>
                  /\ delivered' = Output(groups, conns, c,
                                         <<ErrorEv("Call ID is required")>>, <<>>)
                  /\ UNCHANGED <<calls, now>>
             ELSE IF call_exists(id)
             THEN /\ calls' = [calls EXCEPT ![id] = mark_accepted(@, t)]
                  /\ now' = t
                  /\ sent' = <<Send(UserCallGroup(calls[id].caller),
                                    CallEv("call_accepted", id, calls'[id]))>>
                  /\ delivered' = Output(groups, conns, c, <<>>, sent')
             ELSE /\ sent' = <<>>
                  /\ delivered' = Output(groups, conns, c,
                                         <<ErrorEv("Failed to accept call")>>, <<>>)
                  /\ UNCHANGED <<calls, now>>
    /\ UNCHANGED <<conns, groups, messages, last_message, global_messages, step_vars>>

\* CallConsumer.handle_call_reject
CallReject(c, id, t) ==
    /\ IsOpen(c, "call")
    /\ LET u == conns[c].user
           cid == conns[c].conv
       IN /\ last' = Op("call_reject", c, u, cid, id, "", call_exists(id))
          /\ IF id = 0
             THEN /\ sent' = <<>>
                  /\ delivered' = Output(groups, conns, c,
                                         <<ErrorEv("Call ID is required")>>, <<>>)
                  /\ UNCHANGED <<calls, now>>
             ELSE IF call_exists(id)
             THEN /\ calls' = [calls EXCEPT ![id] = mark_rejected(@, t)]
                  /\ now' = t
                  /\ sent' = <<Send(UserCallGroup(calls[id].caller),
                                    CallEv("call_rejected", id, calls'[id]))>>
                  /\ delivered' = Output(groups, conns, c, <<>>, sent')
             ELSE /\ sent' = <<>>
                  /\ delivered' = NoDelivery
                  /\ UNCHANGED <<calls, now>>
    /\ UNCHANGED <<conns, groups, messages, last_message, global_messages, step_vars>>

\* CallConsumer.handle_call_end
CallEnd(c, id, t) ==
    /\ IsOpen(c, "call")
    /\ LET u == conns[c].user
           cid == conns[c].conv
       IN /\ last' = Op("call_end", c, u, cid, id, "", call_exists(id))
          /\ IF id = 0
             THEN /\ sent' = <<>>
                  /\ delivered' = Output(groups, conns, c,
                                         <<ErrorEv("Call ID is required")>>, <<>>)
                  /\ UNCHANGED <<calls, now>>
             ELSE IF call_exists(id)
             THEN /\ calls' = [calls EXCEPT ![id] = mark_ended(@, t)]
                  /\ now' = t
                  /\ sent' = <<Send(CallGroup(cid), CallEv("call_ended", id, calls'[id]))>>
                  /\ delivered' = Output(groups, conns, c, <<>>, sent')
             ELSE /\ sent' = <<>>
                  /\ delivered' = NoDelivery
                  /\ UNCHANGED <<calls, now>>
    /\ UNCHANGED <<conns, groups, messages, last_message, global_messages, step_vars>>

SignalTypes == {"webrtc_offer", "webrtc_answer", "webrtc_ice_candidate"}
SignalData == {"", "sdp"}

\* a relay that sends the signal back to the sender's own listener group
webrtc_signal_send_to_sender(signal_type, target_user_id, u, signal_data) ==
    Send(UserCallGroup(u), Ev(signal_type, u, "", 0, signal_data))

\* CallConsumer.handle_webrtc_signal: its group_send, to user_call_<target>,
\* with signal_data as received and from_user_id the sender
webrtc_signal_send(signal_type, target_user_id, u, signal_data) ==
    Send(UserCallGroup(target_user_id), Ev(signal_type, u, "", 0, signal_data))

\* CallConsumer.handle_webrtc_signal
WebrtcSignal(c, signal_type, target_user_id, signal_data) ==
    /\ IsOpen(c, "call")
    /\ LET u == conns[c].user
           cid == conns[c].conv
           bad == target_user_id = "" \/ signal_data = ""
       IN /\ last' = Op(signal_type, c, u, target_user_id, 0, signal_data, ~bad)
          /\ IF bad
             THEN /\ sent' = <<>>
                  /\ delivered' = Output(groups, conns, c,
                        <<ErrorEv("Target user ID and signal data are required")>>, <<>>)
             ELSE /\ sent' = <<webrtc_signal_send(signal_type, target_user_id, u,
                                                  signal_data)>>
                  /\ delivered' = Output(groups, conns, c, <<>>, sent')
    /\ UNCHANGED <<conns, groups, messages, last_message, global_messages, calls, now, step_vars>>

\* CallConsumer.receive, message_type == 'ping'
Ping(c) ==
    /\ IsOpen(c, "call")
    /\ last' = Op("ping", c, conns[c].user, conns[c].conv, 0, "", TRUE)
    /\ sent' = <<>>
    /\ delivered' = Output(groups, conns, c, <<Ev("pong", "", "", 0, "")>>, <<>>)
    /\ UNCHANGED <<conns, groups, messages, last_message, global_messages, calls, now, step_vars>>

\* ------------------------------------------------------- JWTAuthMiddleware
\* a credential: sig tells whether AccessToken(token) verifies, user_id is
\* its user_id claim; NoToken is None or the empty string
NoToken == [sig |-> "", user_id |-> ""]
Tokens ==
    {[sig |-> "ok", user_id |-> u] : u \in Users \cup {NoUser}}
    \cup {[sig |-> "bad", user_id |-> "u1"]}
Credentials == Tokens \cup {NoToken}

\* the Authorization header: absent, another scheme, or 'Bearer ' + credential
AuthHeaders ==
    {[scheme |-> "", cred |-> NoToken], [scheme |-> "Basic", cred |-> NoToken]}
    \cup {[scheme |-> "Bearer", cred |-> t] : t \in Credentials}

\* get_user_from_token
get_user_from_token(token_key) ==
    IF token_key.sig = "ok" /\ token_key.user_id \in Users
        THEN token_key.user_id
        ELSE Anon

\* a header step that replaces the token found so far
header_token_overrides(token, header) ==
    IF header.scheme = "Bearer" THEN header.cred ELSE token

\* JWTAuthMiddleware.__call__, step 2: the token after the header is looked at
header_token(token, header) ==
    IF token = NoToken
        THEN (IF header.scheme = "Bearer" THEN header.cred ELSE token)
        ELSE token

\* JWTAuthMiddleware.__call__, step 3: the token after the cookie is looked at
cookie_token(token, cookie) == IF token = NoToken THEN cookie ELSE token

\* JWTAuthMiddleware.__call__: scope['user']
scope_user(query, header, cookie) ==
    LET token == cookie_token(header_token(query, header), cookie)
    IN IF token # NoToken THEN get_user_from_token(token) ELSE Anon

\* JWTAuthMiddleware.__call__ on the handshake of handle c, before the
\* consumer's connect runs
JWTAuth(c, query, header, cookie) ==
    /\ NextHandle(c)
    /\ conns' = [conns EXCEPT ![c] =
                    [status |-> "scoped", endpoint |-> "",
                     user |-> scope_user(query, header, cookie), conv |-> ""]]
    /\ last' = Op("handshake", c, conns'[c].user, "", 0,
                  [query |-> query, header |-> header, cookie |-> cookie], TRUE)
    /\ sent' = <<>>
    /\ delivered' = NoDelivery
    /\ UNCHANGED <<groups, messages, last_message, global_messages, calls, now, step_vars>>

\* ---------------------------------------------------------- specifications
\* handshakes that pass the participant test
Members == {p \in Users \X Convs : p[1] \in participants(p[2])}

\* SpecHub: the handshake and the disconnect handler of the three endpoints,
\* for every identity and conversation id, disconnect repeated at will
NextHub ==
    \/ \E c \in Conns, u \in Identities, cid \in ConvIds : ChatConnect(c, u, cid)
    \/ \E c \in Conns, u \in Identities : GlobalConnect(c, u)
    \/ \E c \in Conns, u \in Identities, cid \in ConvIds \cup {GlobalId} :
            CallConnect(c, u, cid)
    \/ \E c \in Conns : ChatDisconnect(c)
    \/ \E c \in Conns : GlobalDisconnect(c)
    \/ \E c \in Conns : CallDisconnect(c)
SpecHub == Init /\ [][NextHub]_vars

\* SpecTyping: typing events on the private and the global chat endpoint
NextTyping ==
    \/ \E c \in Conns, p \in Members : ChatConnect(c, p[1], p[2])
    \/ \E c \in Conns, u \in Users : GlobalConnect(c, u)
    \/ \E c \in Conns : conns[c].status = "open" /\ ChatDisconnect(c)
    \/ \E c \in Conns : conns[c].status = "open" /\ GlobalDisconnect(c)
    \/ \E c \in Conns, v \in TypingValues : ChatTyping(c, v)
    \/ \E c \in Conns, v \in TypingValues : GlobalTyping(c, v)
SpecTyping == Init /\ [][NextTyping]_vars

\* SpecChat: the private chat router, sending
NextChat ==
    \/ \E c \in Conns, p \in Members : ChatConnect(c, p[1], p[2])
    \/ \E c \in Conns : conns[c].status = "open" /\ ChatDisconnect(c)
    \/ \E c \in Conns, content \in Contents \cup {""}, db \in DbOutcomes :
            ChatSend(c, content, db)
    \/ \E c \in Conns, v \in {"true"} : ChatTyping(c, v)
SpecChat == Init /\ [][NextChat]_vars

\* SpecRead: the read flag of the messages of one conversation, over the
\* WebSocket and over REST (REST callers: every user, on every conversation)
NextRead ==
    \/ \E c \in Conns, u \in participants("c1") : ChatConnect(c, u, "c1")
    \/ \E c \in Conns, content \in Contents : ChatSend(c, content, "ok")
    \/ \E c \in Conns, mid \in MessageIds, t \in Times : ChatMarkRead(c, mid, t)
    \/ \E u \in Users, cid \in ConvIds, t \in Times : RestMarkAsRead(u, cid, t)
    \/ \E u \in Users, mid \in MessageIds, t \in Times : RestMarkRead(u, mid, t)
SpecRead == Init /\ [][NextRead]_vars

\* SpecCall: the call signaling router
NextCall ==
    \/ \E c \in Conns, p \in Members : CallConnect(c, p[1], p[2])
    \/ \E c \in Conns, u \in Users : CallConnect(c, u, GlobalId)
    \/ \E c \in Conns, r \in UserIds, ct \in CallTypes, t \in Times :
            CallInitiate(c, r, ct, t)
    \/ \E c \in Conns, id \in CallIds, t \in Times : CallAccept(c, id, t)
    \/ \E c \in Conns, id \in CallIds, t \in Times : CallReject(c, id, t)
    \/ \E c \in Conns, id \in CallIds, t \in Times : CallEnd(c, id, t)
SpecCall == Init /\ [][NextCall]_vars

\* SpecGlobal: the global chat room
NextGlobal ==
    \/ \E c \in Conns, u \in Identities : GlobalConnect(c, u)
    \/ \E c \in Conns : conns[c].status # "closed" /\ GlobalDisconnect(c)
    \/ \E c \in Conns, content \in Contents \cup {""}, db \in GlobalDbOutcomes :
            GlobalSend(c, content, db)
    \/ \E c \in Conns, v \in TypingValues : GlobalTyping(c, v)
SpecGlobal == Init /\ [][NextGlobal]_vars

\* SpecSignal: the WebRTC relay and the keepalive of the call endpoint, between
\* the participants of one conversation (connected to it or listening globally)
NextSignal ==
    \/ \E c \in Conns, u \in participants("c1"), cid \in {"c1", GlobalId} :
            CallConnect(c, u, cid)
    \/ \E c \in Conns : conns[c].status = "open" /\ CallDisconnect(c)
    \/ \E c \in Conns : \E r \in participants("c1") \ {conns[c].user} :
            CallInitiate(c, r, "video", now)
    \/ \E c \in Conns, st \in SignalTypes, r \in UserIds, d \in SignalData :
            WebrtcSignal(c, st, r, d)
    \/ \E c \in Conns : Ping(c)
SpecSignal == Init /\ [][NextSignal]_vars

\* SpecAuth: the credential resolution of the handshake
NextAuth ==
    \E c \in Conns, q \in Credentials, h \in AuthHeaders, k \in Credentials :
        JWTAuth(c, q, h, k)
SpecAuth == Init /\ [][NextAuth]_vars

\* SpecSend: sending on the private and the global chat endpoint, with the
\* outcomes of the database
NextSend ==
    \/ \E c \in Conns, p \in Members : ChatConnect(c, p[1], p[2])
    \/ \E c \in Conns, u \in Users : GlobalConnect(c, u)
    \/ \E c \in Conns, content \in Contents \cup {""}, db \in DbOutcomes :
            ChatSend(c, content, db)
    \/ \E c \in Conns, content \in Contents \cup {""}, db \in GlobalDbOutcomes :
            GlobalSend(c, content, db)
SpecSend == Init /\ [][NextSend]_vars

\* SpecRing: setting a call up and answering it, between the participants of
\* one conversation (connected to it or listening globally)
NextRing ==
    \/ \E c \in Conns, u \in participants("c1"), cid \in {"c1", GlobalId} :
            CallConnect(c, u, cid)
    \/ \E c \in Conns : \E r \in (participants("c1") \ {conns[c].user}) \cup {NoUser, ""} :
            CallInitiate(c, r, "audio", now)
    \/ \E c \in Conns, id \in CallIds, t \in Times : CallAccept(c, id, t)
SpecRing == Init /\ [][NextRing]_vars

\* SpecBusy: the participants of one conversation calling each other, with
\* room for a second Call
NextBusy ==
    \/ \E c \in Conns, u \in participants("c1") : CallConnect(c, u, "c1")
    \/ \E c \in Conns, r \in participants("c1") :
            handle_call_initiate(c, r, "audio", now, MaxBusyCalls)
    \/ \E c \in Conns, id \in 1..MaxBusyCalls : CallAccept(c, id, now)
    \/ \E c \in Conns, id \in 1..MaxBusyCalls : CallEnd(c, id, now)
SpecBusy == Init /\ [][NextBusy]_vars

\* SpecTalk: the lifetime of the Calls that one participant of a conversation
\* places to the other, with the clock
NextTalk ==
    \/ \E c \in Conns, u \in participants("c1") : CallConnect(c, u, "c1")
    \/ \E c \in Conns : conns[c].user = "u1" /\ CallInitiate(c, "u2", "audio", now)
    \/ \E c \in Conns, id \in 1..MaxCalls, t \in Times : CallAccept(c, id, t)
    \/ \E c \in Conns, id \in 1..MaxCalls : CallReject(c, id, now)
    \/ \E c \in Conns, id \in 1..MaxCalls, t \in Times : CallEnd(c, id, t)
SpecTalk == Init /\ [][NextTalk]_vars

\* SpecReadAny: mark_read over the WebSocket, with connections and messages
\* in every conversation
NextReadAny ==
    \/ \E c \in Conns, p \in Members : ChatConnect(c, p[1], p[2])
    \/ \E c \in Conns, content \in Contents : ChatSend(c, content, "ok")
    \/ \E c \in Conns, mid \in MessageIds, t \in Times : ChatMarkRead(c, mid, t)
SpecReadAny == Init /\ [][NextReadAny]_vars

\* SpecPrivacy: who receives the messages of conversation c1: handshakes of
\* every identity on both conversations, disconnects, and sends to c1 over the
\* WebSocket and over REST by every user
NextPrivacy ==
    \/ \E c \in Conns, u \in Identities, cid \in Convs : ChatConnect(c, u, cid)
    \/ \E c \in Conns : conns[c].status = "open" /\ ChatDisconnect(c)
    \/ \E c \in Conns, content \in Contents :
            conns[c].conv = "c1" /\ ChatSend(c, content, "ok")
    \/ \E u \in Users, content \in Contents \cup {""} : RestSend(u, "c1", content)
SpecPrivacy == Init /\ [][NextPrivacy]_vars

\* ------------------------------------------- the handlers, await by await
\* A handler is a coroutine: at every await of a channel-layer or database
\* call it is suspended and the handlers of the other connections run. The
\* actions below are the pieces of a handler between two awaits; inflight[c]
\* holds where the handler of handle c is suspended. A consumer handles its
\* own events one at a time, so a handle starts a handler only when idle.
Suspended(at, v) == [pc |-> at, val |-> v]
IsIdle(c) == inflight[c].pc = "idle"

\* ChatConsumer.connect up to the return of the first group_add
ChatConnectJoinConversation(c, u, cid) ==
    /\ NextHandle(c)
    /\ last' = Op("connect", c, u, cid, 0, "chat", TRUE)
    /\ IF ~is_authenticated(u) THEN Reject(c, "chat", u, cid) /\ UNCHANGED inflight
       ELSE IF ~check_participant(u, cid)
            THEN Reject(c, "chat", u, cid) /\ UNCHANGED inflight
       ELSE /\ groups' = group_add(groups, ChatGroup(cid), c)
            /\ conns' = [conns EXCEPT ![c] =
                            [status |-> "connecting", endpoint |-> "chat",
                             user |-> u, conv |-> cid]]
            /\ inflight' = [inflight EXCEPT ![c] = Suspended("connect_user_group", 0)]
            /\ sent' = <<>>
            /\ delivered' = NoDelivery
    /\ UNCHANGED <<messages, last_message, global_messages, calls, now,
                   stream_conns, livestream>>

\* ChatConsumer.connect: the second group_add
ChatConnectJoinUser(c) ==
    /\ conns[c].endpoint = "chat"
    /\ inflight[c].pc = "connect_user_group"
    /\ last' = Op("connect", c, conns[c].user, conns[c].conv, 0, "chat", TRUE)
    /\ groups' = group_add(groups, UserGroup(conns[c].user), c)
    /\ inflight' = [inflight EXCEPT ![c] = Suspended("connect_accept", 0)]
    /\ sent' = <<>>
    /\ delivered' = NoDelivery
    /\ UNCHANGED <<conns, messages, last_message, global_messages, calls, now,
                   stream_conns, livestream>>

\* ChatConsumer.connect: accept() and the connection_established event
ChatConnectAccept(c) ==
    /\ conns[c].endpoint = "chat"
    /\ inflight[c].pc = "connect_accept"
    /\ last' = Op("connect", c, conns[c].user, conns[c].conv, 0, "chat", TRUE)
    /\ conns' = [conns EXCEPT ![c].status = "open"]
    /\ inflight' = [inflight EXCEPT ![c] = Idle]
    /\ sent' = <<>>
    /\ delivered' = Output(groups, conns', c, <<EstablishedEv>>, <<>>)
    /\ UNCHANGED <<groups, messages, last_message, global_messages, calls, now,
                   stream_conns, livestream>>

\* ChatConsumer.disconnect up to the return of the first group_discard; the
\* socket is closed when the handler starts
ChatDisconnectLeaveConversation(c) ==
    /\ conns[c].status \in {"open", "rejected"}
    /\ conns[c].endpoint = "chat"
    /\ IsIdle(c)
    /\ last' = Op("disconnect", c, conns[c].user, conns[c].conv, 0, "chat", TRUE)
    /\ groups' = group_discard(groups, ChatGroup(conns[c].conv), c)
    /\ conns' = [conns EXCEPT ![c].status = "closed"]
    /\ inflight' = [inflight EXCEPT ![c] = Suspended("disconnect_user_group", 0)]
    /\ sent' = <<>>
    /\ delivered' = NoDelivery
    /\ UNCHANGED <<messages, last_message, global_messages, calls, now,
                   stream_conns, livestream>>

\* ChatConsumer.disconnect: the second group_discard
ChatDisconnectLeaveUser(c) ==
    /\ conns[c].endpoint = "chat"
    /\ inflight[c].pc = "disconnect_user_group"
    /\ last' = Op("disconnect", c, conns[c].user, conns[c].conv, 0, "chat", TRUE)
    /\ groups' = group_discard(groups, UserGroup(conns[c].user), c)
    /\ inflight' = [inflight EXCEPT ![c] = Idle]
    /\ sent' = <<>>
    /\ delivered' = NoDelivery
    /\ UNCHANGED <<conns, messages, last_message, global_messages, calls, now,
                   stream_conns, livestream>>

\* CallConsumer.connect up to the return of its first group_add: of the
\* conversation's call group, or for a global listener of the personal group
CallConnectJoinConversation(c, u, cid) ==
    /\ NextHandle(c)
    /\ last' = Op("connect", c, u, cid, 0, "call", TRUE)
    /\ LET is_global == (cid = GlobalId)
       IN IF ~is_authenticated(u) THEN Reject(c, "call", u, cid) /\ UNCHANGED inflight
          ELSE IF ~is_global /\ ~check_participant(u, cid)
               THEN Reject(c, "call", u, cid) /\ UNCHANGED inflight
          ELSE /\ groups' = IF ~is_global THEN group_add(groups, CallGroup(cid), c)
                            ELSE group_add(groups, UserCallGroup(u), c)
               /\ conns' = [conns EXCEPT ![c] =
                               [status |-> "connecting", endpoint |-> "call",
                                user |-> u, conv |-> cid]]
               /\ inflight' = [inflight EXCEPT ![c] =
                                  IF ~is_global THEN Suspended("connect_user_group", 0)
                                  ELSE Suspended("connect_accept", 0)]
               /\ sent' = <<>>
               /\ delivered' = NoDelivery
    /\ UNCHANGED <<messages, last_message, global_messages, calls, now,
                   stream_conns, livestream>>

\* CallConsumer.connect: the group_add of the personal call group
CallConnectJoinUser(c) ==
    /\ conns[c].endpoint = "call"
    /\ inflight[c].pc = "connect_user_group"
    /\ last' = Op("connect", c, conns[c].user, conns[c].conv, 0, "call", TRUE)
    /\ groups' = group_add(groups, UserCallGroup(conns[c].user), c)
    /\ inflight' = [inflight EXCEPT ![c] = Suspended("connect_accept", 0)]
    /\ sent' = <<>>
    /\ delivered' = NoDelivery
    /\ UNCHANGED <<conns, messages, last_message, global_messages, calls, now,
                   stream_conns, livestream>>

\* CallConsumer.connect: accept() and the connection_established event
CallConnectAccept(c) ==
    /\ conns[c].endpoint = "call"
    /\ inflight[c].pc = "connect_accept"
    /\ last' = Op("connect", c, conns[c].user, conns[c].conv, 0, "call", TRUE)
    /\ conns' = [conns EXCEPT ![c].status = "open"]
    /\ inflight' = [inflight EXCEPT ![c] = Idle]
    /\ sent' = <<>>
    /\ delivered' = Output(groups, conns', c, <<EstablishedEv>>, <<>>)
    /\ UNCHANGED <<groups, messages, last_message, global_messages, calls, now,
                   stream_conns, livestream>>

\* SpecJoin: connections joining and leaving a conversation's chat and call
\* endpoints await by await, while the open connections broadcast
NextJoin ==
    \/ \E c \in Conns, p \in Members : ChatConnectJoinConversation(c, p[1], p[2])
    \/ \E c \in Conns : ChatConnectJoinUser(c)
    \/ \E c \in Conns : ChatConnectAccept(c)
    \/ \E c \in Conns : ChatDisconnectLeaveConversation(c)
    \/ \E c \in Conns : ChatDisconnectLeaveUser(c)
    \/ \E c \in Conns, u \in participants("c1"), cid \in {"c1", GlobalId} :
            CallConnectJoinConversation(c, u, cid)
    \/ \E c \in Conns : CallConnectJoinUser(c)
    \/ \E c \in Conns : CallConnectAccept(c)
    \/ \E c \in Conns, content \in Contents : ChatSend(c, content, "ok")
SpecJoin == Init /\ [][NextJoin]_vars

\* ChatConsumer.receive, message_type == 'chat_message', up to the INSERT of
\* save_message: Message.objects.create. The statements of save_message are
\* not in a transaction and take no lock, so the save_message of another
\* worker runs between them.
ChatSendCreate(c, content) ==
    /\ IsOpen(c, "chat")
    /\ IsIdle(c)
    /\ content # "" => Len(messages) < MaxMsgs
    /\ LET u == conns[c].user
           cid == conns[c].conv
       IN IF content = ""
          THEN /\ last' = Op("chat_message", c, u, cid, 0, content, FALSE)
               /\ delivered' = Output(groups, conns, c,
                                      <<ErrorEv("Message content is required")>>, <<>>)
               /\ UNCHANGED <<messages, inflight>>
          ELSE /\ messages' = Append(messages, NewMessage(cid, u, content))
               /\ inflight' = [inflight EXCEPT ![c] =
                                  Suspended("save_pointer", Len(messages) + 1)]
               /\ last' = Op("chat_message", c, u, cid, Len(messages) + 1, content, TRUE)
               /\ delivered' = NoDelivery
    /\ sent' = <<>>
    /\ UNCHANGED <<conns, groups, last_message, global_messages, calls, now,
                   stream_conns, livestream>>

\* save_message: conversation.last_message = message; conversation.save()
ChatSendPoint(c) ==
    /\ inflight[c].pc = "save_pointer"
    /\ LET id == inflight[c].val IN
       /\ last_message' = [last_message EXCEPT ![conns[c].conv] = id]
       /\ inflight' = [inflight EXCEPT ![c] = Suspended("group_send", id)]
       /\ last' = Op("chat_message", c, conns[c].user, conns[c].conv, id,
                     messages[id].content, TRUE)
    /\ sent' = <<>>
    /\ delivered' = NoDelivery
    /\ UNCHANGED <<conns, groups, messages, global_messages, calls, now,
                   stream_conns, livestream>>

\* receive after save_message returned: the group_send of chat_message and
\* notify_conversation_update
ChatSendFanout(c) ==
    /\ inflight[c].pc = "group_send"
    /\ LET id == inflight[c].val
           u == conns[c].user
           cid == conns[c].conv
           content == messages[id].content
       IN /\ sent' = <<Send(ChatGroup(cid), Ev("chat_message", u, cid, id, content))>>
                     \o notify_conversation_update(cid, u, content)
          /\ last' = Op("chat_message", c, u, cid, id, content, TRUE)
    /\ delivered' = Output(groups, conns, c, <<>>, sent')
    /\ inflight' = [inflight EXCEPT ![c] = Idle]
    /\ UNCHANGED <<conns, groups, messages, last_message, global_messages, calls,
                   now, stream_conns, livestream>>

\* SpecRace: the participants of one conversation sending to it at the same
\* time, statement by statement
NextRace ==
    \/ \E c \in Conns, u \in participants("c1") : ChatConnect(c, u, "c1")
    \/ \E c \in Conns, content \in Contents \cup {""} : ChatSendCreate(c, content)
    \/ \E c \in Conns : ChatSendPoint(c)
    \/ \E c \in Conns : ChatSendFanout(c)
SpecRace == Init /\ [][NextRace]_vars

\* ------------------------------------------------------ LiveStreamConsumer
ViewerCountEv(sid, count) == Ev("viewer_count", "", sid, count, "")

\* LiveStreamConsumer.connect: any client is accepted
LiveConnect(c, sid) ==
    /\ NextHandle(c)
    /\ last' = Op("connect", c, "", sid, 0, "livestream", TRUE)
    /\ groups' = group_add(groups, LiveGroup(sid), c)
    /\ conns' = [conns EXCEPT ![c] =
                    [status |-> "open", endpoint |-> "livestream",
                     user |-> "", conv |-> sid]]
    /\ stream_conns' = [stream_conns EXCEPT ![c] = NoStreamConn]
    /\ sent' = <<>>
    /\ delivered' = Output(groups', conns', c,
                           <<ViewerCountEv(sid, livestream[sid].viewer_count)>>, <<>>)
    /\ UNCHANGED <<messages, last_message, global_messages, calls, now,
                   inflight, livestream>>

\* LiveStreamConsumer.update_viewer_count after LiveStream.objects.get
\* returned row: the row it saves
update_viewer_count(row, delta) ==
    LET n == IF row.viewer_count + delta > 0 THEN row.viewer_count + delta ELSE 0
    IN [viewer_count |-> n,
        peak_viewers |-> IF n > row.peak_viewers THEN n ELSE row.peak_viewers]

\* LiveStreamConsumer.handle_identify up to the LiveStream.objects.get of
\* update_viewer_count; a streamer is answered with the stored count
LiveIdentify(c, is_streamer) ==
    /\ IsOpen(c, "livestream")
    /\ IsIdle(c)
    /\ LET sid == conns[c].conv
           said == IF ~is_streamer THEN "viewer"
                   ELSE IF stream_conns[c].identified = "viewer" THEN "viewer"
                   ELSE "streamer"
       IN /\ last' = Op("identify", c, "", sid, 0, said, TRUE)
          /\ IF ~is_streamer /\ ~stream_conns[c].is_counted
             THEN /\ stream_conns' = [stream_conns EXCEPT ![c] =
                                         [is_streamer |-> is_streamer,
                                          is_counted |-> TRUE, identified |-> said]]
                  /\ inflight' = [inflight EXCEPT ![c] =
                                     Suspended("identify_save", livestream[sid])]
                  /\ delivered' = NoDelivery
             ELSE /\ stream_conns' = [stream_conns EXCEPT ![c].is_streamer = is_streamer,
                                                          ![c].identified = said]
                  /\ delivered' = Output(groups, conns, c,
                         IF is_streamer
                            THEN <<ViewerCountEv(sid, livestream[sid].viewer_count)>>
                            ELSE <<>>, <<>>)
                  /\ UNCHANGED inflight
    /\ sent' = <<>>
    /\ UNCHANGED <<conns, groups, messages, last_message, global_messages, calls,
                   now, livestream>>

\* handle_identify: the save of update_viewer_count(1) and the group_send of
\* the count it returned
LiveIdentifySave(c) ==
    /\ inflight[c].pc = "identify_save"
    /\ LET sid == conns[c].conv
           row == update_viewer_count(inflight[c].val, 1)
       IN /\ livestream' = [livestream EXCEPT ![sid] = row]
          /\ sent' = <<Send(LiveGroup(sid),
                            Ev("broadcast_viewer_count", "", sid, row.viewer_count, ""))>>
          /\ last' = Op("identify", c, "", sid, row.viewer_count, "viewer", TRUE)
    /\ delivered' = Output(groups, conns, c, <<>>, sent')
    /\ inflight' = [inflight EXCEPT ![c] = Idle]
    /\ UNCHANGED <<conns, groups, messages, last_message, global_messages, calls,
                   now, stream_conns>>

\* LiveStreamConsumer.disconnect: of a counted connection up to the
\* LiveStream.objects.get of update_viewer_count, of any other all of it
LiveDisconnect(c) ==
    /\ IsOpen(c, "livestream")
    /\ IsIdle(c)
    /\ LET sid == conns[c].conv IN
       /\ last' = Op("disconnect", c, "", sid, 0, "livestream", TRUE)
       /\ IF stream_conns[c].is_counted
          THEN /\ inflight' = [inflight EXCEPT ![c] =
                                  Suspended("disconnect_save", livestream[sid])]
               /\ UNCHANGED groups
          ELSE /\ groups' = group_discard(groups, LiveGroup(sid), c)
               /\ UNCHANGED inflight
    /\ conns' = [conns EXCEPT ![c].status = "closed"]
    /\ sent' = <<>>
    /\ delivered' = NoDelivery
    /\ UNCHANGED <<messages, last_message, global_messages, calls, now,
                   stream_conns, livestream>>

\* disconnect: the save of update_viewer_count(-1), the group_send of the count
\* it returned and the group_discard; the consumer stops after disconnect and
\* does not handle the event it sent to its own group
LiveDisconnectSave(c) ==
    /\ inflight[c].pc = "disconnect_save"
    /\ LET sid == conns[c].conv
           row == update_viewer_count(inflight[c].val, -1)
       IN /\ livestream' = [livestream EXCEPT ![sid] = row]
          /\ sent' = <<Send(LiveGroup(sid),
                            Ev("broadcast_viewer_count", "", sid, row.viewer_count, ""))>>
          /\ groups' = group_discard(groups, LiveGroup(sid), c)
          /\ last' = Op("disconnect", c, "", sid, row.viewer_count, "livestream", TRUE)
    /\ delivered' = [d \in Conns |->
                        IF d = c THEN <<>> ELSE Fanout(groups, conns, sent', d)]
    /\ inflight' = [inflight EXCEPT ![c] = Idle]
    /\ UNCHANGED <<conns, messages, last_message, global_messages, calls, now,
                   stream_conns>>

\* SpecLive: the connections of one livestream identifying and leaving, with
\* the row of the stream read and saved by each handler on its own
NextLive ==
    \/ \E c \in Conns, sid \in Streams : LiveConnect(c, sid)
    \/ \E c \in Conns, is_streamer \in BOOLEAN : LiveIdentify(c, is_streamer)
    \/ \E c \in Conns : LiveIdentifySave(c)
    \/ \E c \in Conns : LiveDisconnect(c)
    \/ \E c \in Conns : LiveDisconnectSave(c)
SpecLive == Init /\ [][NextLive]_vars

\* =================================================================== claims

CallRows == 1..Len(calls)

\* the edges of the Call state machine
CallEdge(from, to) ==
    \/ from = "ringing" /\ to \in {"accepted", "rejected"}
    \/ from \notin Terminal /\ to = "ended"

\* C1: every change of a Call's status follows an edge ringing->accepted,
\* ringing->rejected or non-terminal->ended; and a call_accept on a rejected
\* Call is answered with an error event and leaves status and answered_at alone.
C1_StatusFollowsEdges ==
    [][ /\ \A id \in CallRows :
              calls'[id].status # calls[id].status
                  => CallEdge(calls[id].status, calls'[id].status)
        /\ \A id \in CallRows :
              (last'.op = "call_accept" /\ last'.ref = id /\ calls[id].status = "rejected")
                  => /\ calls'[id].status = calls[id].status
                     /\ calls'[id].answered_at = calls[id].answered_at
                     /\ \E i \in 1..Len(delivered'[last'.conn]) :
                            delivered'[last'.conn][i].type = "error"
      ]_vars

\* C2: a Call whose status is ended, rejected, missed or failed is not changed
\* by any later call_accept, call_reject or call_end.
C2_TerminalImmutable ==
    [][ \A id \in CallRows :
            calls[id].status \in Terminal
                => /\ calls'[id].status = calls[id].status
                   /\ calls'[id].answered_at = calls[id].answered_at
                   /\ calls'[id].ended_at = calls[id].ended_at
                   /\ calls'[id].duration = calls[id].duration
      ]_vars

\* the groups the endpoint of handle c assigns to it; none unless it is open
GroupsOf(c) ==
    IF conns[c].status # "open" THEN {}
    ELSE CASE conns[c].endpoint = "chat" ->
                 {ChatGroup(conns[c].conv), UserGroup(conns[c].user)}
           [] conns[c].endpoint = "global" -> {GlobalChatGroup}
           [] conns[c].endpoint = "call" ->
                 (IF conns[c].conv # GlobalId THEN {CallGroup(conns[c].conv)} ELSE {})
                 \cup {UserCallGroup(conns[c].user)}
           [] OTHER -> {}

HasType(seq, type) == \E i \in 1..Len(seq) : seq[i].type = type
CountType(seq, type) == Cardinality({i \in 1..Len(seq) : seq[i].type = type})
InNoGroup(c) == \A n \in GroupNames : c \notin groups[n]

\* the events of the last step's group sends that reach handle c, when a send
\* to G reaches exactly the open handles whose endpoint put them in G
RECURSIVE Reaches(_, _)
Reaches(sends, c) ==
    IF sends = <<>> THEN <<>>
    ELSE (IF Head(sends).group \in GroupsOf(c) THEN <<Head(sends).event>> ELSE <<>>)
         \o Reaches(Tail(sends), c)

FanoutTypes == {"chat_message", "conversation_update"}
IsFanout(e) == e.type \in FanoutTypes
IsFanoutSend(snd) == snd.event.type \in FanoutTypes

C4_AnonymousHandshakeClosed ==
    \A c \in Conns :
        (conns[c].status # "new" /\ conns[c].user = Anon)
            => /\ conns[c].status \in {"rejected", "closed"}
               /\ InNoGroup(c)
               /\ delivered[c] = <<>>
               /\ last.conn = c => (sent = <<>> /\ delivered = NoDelivery)

\* anonymous handshakes were closed on two different endpoints
C4_Witness ==
    \E c, d \in Conns :
        /\ conns[c].user = Anon /\ conns[d].user = Anon
        /\ conns[c].status = "rejected" /\ conns[d].status = "rejected"
        /\ conns[c].endpoint # conns[d].endpoint
        /\ last.op = "connect" /\ last.conn = d

\* the handshakes C5 is about: authenticated, on the private-chat endpoint or
\* on the call endpoint for a conversation id other than 'global', by a user who
\* is no participant (also when the conversation does not exist)
NonParticipantHandshake(c) ==
    /\ conns[c].status # "new"
    /\ conns[c].user \in Users
    /\ \/ conns[c].endpoint = "chat"
       \/ conns[c].endpoint = "call" /\ conns[c].conv # GlobalId
    /\ conns[c].user \notin participants(conns[c].conv)

\* C5: such a handshake is closed, never accepted, and joins no group.
C5_NonParticipantHandshakeClosed ==
    \A c \in Conns :
        NonParticipantHandshake(c)
            => /\ conns[c].status \in {"rejected", "closed"}
               /\ InNoGroup(c)
               /\ delivered[c] = <<>>

\* one was closed for a conversation that exists, one for a missing conversation
C5_Witness ==
    \E c, d \in Conns :
        /\ NonParticipantHandshake(c) /\ NonParticipantHandshake(d)
        /\ conns[c].status = "rejected" /\ conns[d].status = "rejected"
        /\ conns[c].conv \in Convs /\ conns[d].conv = NoConv
        /\ conns[c].endpoint = "chat" /\ conns[d].endpoint = "call"

\* C6: after its disconnect handler has run a connection is in no group, and
\* running the handler again leaves the group table as it is.
C6_DisconnectLeavesAllGroups ==
    /\ [](\A c \in Conns : conns[c].status = "closed" => InNoGroup(c))
    /\ [][ (last'.op = "disconnect" /\ conns[last'.conn].status = "closed")
               => groups' = groups ]_vars

\* a private-chat handle and a call handle that had joined their groups have
\* been disconnected, while another handle is still registered
C6_Witness ==
    /\ last.op = "disconnect"
    /\ \E c, d \in Conns :
          /\ c = last.conn
          /\ conns[c].status = "closed"
          /\ conns[c].endpoint \in {"chat", "call"}
          /\ conns[c].user \in participants(conns[c].conv)
          /\ conns[d].status = "open"
          /\ GroupsOf(d) # {} /\ \A n \in GroupsOf(d) : d \in groups[n]

MessageRows == 1..Len(messages)

\* C7: mark_read is idempotent: a mark_read event on a message not sent by the
\* caller leaves is_read true; read_at is stamped by the first such event and
\* is left unchanged by every later one.
C7_MarkReadIdempotent ==
    [][ \A mid \in MessageRows :
            ( /\ last'.op = "mark_read" /\ last'.body = "ws" /\ last'.ref = mid
              /\ messages[mid].sender # last'.user )
                => /\ messages'[mid].is_read
                   /\ messages'[mid].read_at =
                          IF messages[mid].is_read THEN messages[mid].read_at ELSE now'
      ]_vars

\* a mark_read was handled on a message that had been read at an earlier time
C7_Witness ==
    /\ last.op = "mark_read" /\ last.body = "ws"
    /\ last.ref \in MessageRows
    /\ messages[last.ref].sender # last.user
    /\ messages[last.ref].is_read
    /\ messages[last.ref].read_at < now

MarkReadOps == {"mark_read", "mark_as_read"}

\* C8: a mark-read operation (WebSocket mark_read, REST mark_read on a message,
\* REST mark_as_read on a conversation) issued by the sender of a message never
\* changes that message's is_read or read_at.
C8_SenderNeverMarksOwn ==
    [][ \A mid \in MessageRows :
            (last'.op \in MarkReadOps /\ last'.user = messages[mid].sender)
                => /\ messages'[mid].is_read = messages[mid].is_read
                   /\ messages'[mid].read_at = messages[mid].read_at
      ]_vars

\* the sender asked, over REST for the conversation, to mark as read while one
\* of its own messages and one of the other participant's were unread: only
\* its own is still unread
C8_Witness ==
    /\ last.op = "mark_as_read" /\ last.ok
    /\ \E m1, m2 \in MessageRows :
          /\ messages[m1].conversation = last.conv
          /\ messages[m2].conversation = last.conv
          /\ messages[m1].sender = last.user /\ ~messages[m1].is_read
          /\ messages[m2].sender # last.user
          /\ messages[m2].is_read /\ messages[m2].read_at = now

\* the group a typing event of the last step was sent to
TypingGroup ==
    IF conns[last.conn].endpoint = "chat" THEN ChatGroup(last.conv) ELSE GlobalChatGroup

\* C9: a typing event of user U yields no typing_indicator on any connection
\* whose user is U, and exactly one, carrying U and the flag, on every other
\* connection of the group.
C9_TypingNotEchoed ==
    last.op = "typing" =>
        \A c \in Conns :
            /\ CountType(delivered[c], "typing_indicator") =
                   IF TypingGroup \in GroupsOf(c) /\ conns[c].user # last.user
                       THEN 1 ELSE 0
            /\ \A i \in 1..Len(delivered[c]) :
                   delivered[c][i].type = "typing_indicator"
                       => /\ delivered[c][i].user = last.user
                          /\ delivered[c][i].body = last.body

\* a typing event reached the other user's connection in the global room
C9_Witness ==
    /\ last.op = "typing"
    /\ conns[last.conn].endpoint = "global"
    /\ delivered[last.conn] = <<>>
    /\ \E d \in Conns :
          /\ d # last.conn
          /\ conns[d].user # last.user
          /\ HasType(delivered[d], "typing_indicator")

\* two connections of the same user in one conversation: neither got it
C9_WitnessSameUser ==
    /\ last.op = "typing"
    /\ conns[last.conn].endpoint = "chat"
    /\ \E d \in Conns :
          /\ d # last.conn
          /\ conns[d].user = last.user
          /\ TypingGroup \in GroupsOf(d)
          /\ delivered[d] = <<>>

\* what a handled chat_message{content} of handle c does, from the state
\* before it (unprimed) to the state after it (primed)
SendEffect(c, content) ==
    LET u == conns[c].user
        cid == conns[c].conv
        id == Len(messages) + 1
    IN /\ messages' = Append(messages, NewMessage(cid, u, content))
       /\ last_message' = [last_message EXCEPT ![cid] = id]
       /\ \A d \in Conns :
             /\ CountType(delivered'[d], "chat_message") =
                    IF ChatGroup(cid) \in GroupsOf(d) THEN 1 ELSE 0
             /\ CountType(delivered'[d], "conversation_update") =
                    IF \E q \in participants(cid) : UserGroup(q) \in GroupsOf(d)
                        THEN 1 ELSE 0
             /\ \A i \in 1..Len(delivered'[d]) :
                    delivered'[d][i].type = "chat_message"
                        => delivered'[d][i] = Ev("chat_message", u, cid, id, content)
       /\ \A q \in participants(cid) :
             Cardinality({i \in 1..Len(sent') :
                            sent'[i] = Send(UserGroup(q),
                                            Ev("conversation_update", u, cid, 0, content))})
                 = 1
       /\ Len(sent') = 1 + Cardinality(participants(cid))
       /\ sent'[1] = Send(ChatGroup(cid), Ev("chat_message", u, cid, id, content))

\* C10 as stated: every chat_message event with non-empty content from an
\* admitted connection persists exactly one Message (sender, conversation),
\* points last_message at it, delivers one chat_message to every connection of
\* chat_<C> and one conversation_update to every participant's personal group.
C10_SendPersistsAndFansOut ==
    [][ (last'.op = "chat_message" /\ last'.body # "")
            => SendEffect(last'.conn, last'.body) ]_vars

\* C10 amended: the same, for the events whose save_message returns the Message.
C10_SendPersistsAndFansOutWhenSaved ==
    [][ (last'.op = "chat_message" /\ last'.body # "" /\ last'.ok)
            => SendEffect(last'.conn, last'.body) ]_vars

\* a second message was saved and fanned out to both participants' connections
C10_Witness ==
    /\ last.op = "chat_message" /\ last.ok
    /\ last.ref = 2
    /\ last_message[last.conv] = 2
    /\ \A c \in Conns : /\ HasType(delivered[c], "chat_message")
                        /\ HasType(delivered[c], "conversation_update")
    /\ \E c \in Conns : conns[c].user # last.user

\* the error reply: the originating handle writes one error event, every
\* other handle writes nothing, nothing goes to any group, every handle stays
\* as it was and no row of any table changes
ErrorReplyOnly(c) ==
    /\ Len(delivered'[c]) = 1
    /\ delivered'[c][1].type = "error"
    /\ \A d \in Conns \ {c} : delivered'[d] = <<>>
    /\ sent' = <<>>
    /\ conns' = conns
    /\ groups' = groups
    /\ UNCHANGED <<messages, last_message, global_messages, calls>>

\* C11: a call_end for an existing Call sends call_ended to the call group of
\* the Call's own conversation, whichever connection sent the call_end, and
\* every open call connection of that conversation writes it to its client.
C11_CallEndedReachesCallConversation ==
    [][ (last'.op = "call_end" /\ last'.ref \in CallRows)
            => LET id == last'.ref
                   ended == CallEv("call_ended", id, calls'[id])
               IN /\ sent' = <<Send(CallGroup(calls[id].conversation), ended)>>
                  /\ \A d \in Conns :
                        CallGroup(calls[id].conversation) \in GroupsOf(d)
                            => delivered'[d] = <<ended>>
      ]_vars

\* an inbound call-router event that names a row that does not exist: a
\* receiver id with no User or a connection with no Conversation for
\* call_initiate, a call id with no Call, a relay target with no User
MissingReference(op) ==
    \/ /\ op.op = "call_initiate"
       /\ op.body # ""
       /\ (op.body \notin Users \/ op.conv \notin Convs)
    \/ /\ op.op \in {"call_accept", "call_reject", "call_end"}
       /\ op.ref # 0
       /\ op.ref \notin CallRows
    \/ /\ op.op \in SignalTypes
       /\ op.conv = NoUser
       /\ op.body # ""

\* C12: a call-router event that references a call id, target user or
\* conversation that does not exist is answered with an error event on the
\* originating connection only; the connection stays open, no Call changes and
\* nothing is sent to any group (call_initiate, call_accept, call_reject,
\* call_end and the three webrtc relay events).
C12_MissingReferenceAnsweredWithError ==
    [][ MissingReference(last') => ErrorReplyOnly(last'.conn) ]_vars

\* C13: a mark_read event whose target message does not exist, or was sent by
\* the caller, is answered with an error event on the originating connection,
\* changes no Message and sends no message_read to the conversation group.
C13_InvalidMarkReadAnsweredWithError ==
    [][ ( /\ last'.op = "mark_read" /\ last'.body = "ws"
          /\ last'.ref # 0
          /\ \/ last'.ref \notin MessageRows
             \/ messages[last'.ref].sender = last'.user )
            => ErrorReplyOnly(last'.conn) ]_vars

\* the number of group sends of the step to group g with event type type
SendsTo(g, type) ==
    Cardinality({i \in 1..Len(sent') :
                    sent'[i].group = g /\ sent'[i].event.type = type})

\* the fan-out that announces the status a Call row has after the step
CallFanout(call) ==
    CASE call.status = "ringing"  ->
             SendsTo(UserCallGroup(call.receiver), "incoming_call") = 1
      [] call.status = "accepted" ->
             SendsTo(UserCallGroup(call.caller), "call_accepted") = 1
      [] call.status = "rejected" ->
             SendsTo(UserCallGroup(call.caller), "call_rejected") = 1
      [] call.status = "ended"    ->
             SendsTo(CallGroup(call.conversation), "call_ended") = 1
      [] OTHER -> TRUE

\* C14: every hub operation that changes persisted externally visible state
\* (a Message or GlobalMessage is created, a read flag is set, a Call is created
\* or changes status) sends, before its handling finishes, exactly one fan-out
\* event to each affected group.
C14_MutationFollowedByFanout ==
    [][ last'.conn # 0 =>
          /\ Len(messages') > Len(messages)
                => SendsTo(ChatGroup(messages'[Len(messages')].conversation),
                           "chat_message") = 1
          /\ Len(global_messages') > Len(global_messages)
                => SendsTo(GlobalChatGroup, "chat_message") = 1
          /\ \A mid \in MessageRows :
                (messages'[mid].is_read /\ ~messages[mid].is_read)
                    => SendsTo(ChatGroup(messages[mid].conversation),
                               "message_read") = 1
          /\ Len(calls') > Len(calls) => CallFanout(calls'[Len(calls')])
          /\ \A id \in CallRows :
                calls'[id].status # calls[id].status => CallFanout(calls'[id])
      ]_vars

\* what a handled call_initiate{receiver_id} of handle c does, from the state
\* before it (unprimed) to the state after it (primed)
InitiateEffect(c, receiver_id) ==
    LET id == Len(calls) + 1
        call == calls'[id]
        incoming == CallEv("incoming_call", id, call)
    IN /\ Len(calls') = id
       /\ \A i \in CallRows : calls'[i] = calls[i]
       /\ call.conversation = conns[c].conv
       /\ call.caller = conns[c].user
       /\ call.receiver = receiver_id
       /\ call.status = "ringing"
       /\ sent' = <<Send(UserCallGroup(receiver_id), incoming)>>
       /\ \A d \in Conns :
             HasType(delivered'[d], "incoming_call")
                 <=> UserCallGroup(receiver_id) \in GroupsOf(d)
       /\ \A d \in Conns :
             HasType(delivered'[d], "call_initiated") <=> d = c
       /\ delivered'[c][1].type = "call_initiated"
       /\ delivered'[c][1].ref = id
       /\ \A d \in Conns : \A i \in 1..Len(delivered'[d]) :
             delivered'[d][i].ref = id

\* C15 as stated: a call_initiate event with a receiver id, sent on a
\* connection admitted to conversation C, creates exactly one Call with
\* conversation C, caller the connection's user and status ringing, delivers
\* incoming_call to user_call_<receiver> and replies call_initiated to the
\* caller with the same call id.
C15_InitiateCreatesRingingCall ==
    [][ ( /\ last'.op = "call_initiate"
          /\ last'.body # ""
          /\ last'.conv \in Convs )
            => InitiateEffect(last'.conn, last'.body) ]_vars

\* C15 amended: the same, for a receiver id that names an existing User.
C15_InitiateCreatesRingingCallForUser ==
    [][ ( /\ last'.op = "call_initiate"
          /\ last'.body \in Users
          /\ last'.conv \in Convs )
            => InitiateEffect(last'.conn, last'.body) ]_vars

\* a call was initiated to another user who has a connection open: the caller
\* got call_initiated and the receiver's connection got incoming_call
C15_Witness ==
    /\ last.op = "call_initiate" /\ last.ok
    /\ calls[last.ref].status = "ringing"
    /\ calls[last.ref].receiver # last.user
    /\ HasType(delivered[last.conn], "call_initiated")
    /\ \E d \in Conns \ {last.conn} :
          /\ conns[d].user = calls[last.ref].receiver
          /\ HasType(delivered[d], "incoming_call")

\* C16: a call_accept event on a ringing Call sets its status to accepted and
\* stamps answered_at, and delivers call_accepted to the caller's personal
\* call-listener group user_call_<caller> and to no other group.
C16_AcceptRingingCall ==
    [][ ( /\ last'.op = "call_accept"
          /\ last'.ref \in CallRows
          /\ calls[last'.ref].status = "ringing" )
            => LET id == last'.ref
                   accepted == CallEv("call_accepted", id, calls'[id])
               IN /\ calls'[id].status = "accepted"
                  /\ calls'[id].answered_at = now'
                  /\ calls'[id].answered_at > 0
                  /\ sent' = <<Send(UserCallGroup(calls[id].caller), accepted)>>
                  /\ \A d \in Conns :
                        delivered'[d] =
                            IF UserCallGroup(calls[id].caller) \in GroupsOf(d)
                                THEN <<accepted>> ELSE <<>>
      ]_vars

\* a Call that was never rejected or ended was accepted on one connection and
\* the caller's connection, another one, got call_accepted
C16_Witness ==
    /\ last.op = "call_accept" /\ last.ok
    /\ calls[last.ref].status = "accepted"
    /\ calls[last.ref].answered_at = now
    /\ calls[last.ref].ended_at = 0
    /\ \E d \in Conns \ {last.conn} :
          /\ conns[d].user = calls[last.ref].caller
          /\ HasType(delivered[d], "call_accepted")
    /\ delivered[last.conn] = <<>>

\* the first of the three sources that holds a non-empty credential: the
\* query parameter, else the Bearer header, else the cookie
FirstCredential(query, header, cookie) ==
    IF query # NoToken THEN query
    ELSE IF header.scheme = "Bearer" /\ header.cred # NoToken THEN header.cred
    ELSE cookie

\* C17: the handshake credential is the query parameter token if non-empty,
\* otherwise the Authorization: Bearer header if non-empty, otherwise the
\* access_token cookie; when the chosen credential fails verification the
\* identity is anonymous even if a later source holds a valid credential.
C17_FirstCredentialWins ==
    last.op = "handshake" =>
        LET q == last.body.query
            h == last.body.header
            k == last.body.cookie
            first == FirstCredential(q, h, k)
            user == conns[last.conn].user
        IN /\ user = IF first.sig = "ok" /\ first.user_id \in Users
                        THEN first.user_id ELSE Anon
           /\ (q # NoToken /\ q.sig = "bad") => user = Anon
           /\ (q = NoToken /\ h.scheme = "Bearer" /\ h.cred.sig = "bad")
                  => user = Anon

\* a handshake whose query token fails verification while both the header and
\* the cookie hold valid credentials resolved to the anonymous identity
C17_Witness ==
    /\ last.op = "handshake"
    /\ last.body.query.sig = "bad"
    /\ last.body.header.scheme = "Bearer"
    /\ get_user_from_token(last.body.header.cred) \in Users
    /\ get_user_from_token(last.body.cookie) \in Users
    /\ conns[last.conn].user = Anon

\* the chat_message event handled in the step was refused: its content is
\* empty, or the save did not complete (private chat: last_message was not
\* moved to a new Message; global room: no GlobalChatMessage was added)
SendRefused ==
    /\ last'.op = "chat_message"
    /\ \/ last'.body = ""
       \/ conns[last'.conn].endpoint = "chat" /\ last_message' = last_message
       \/ conns[last'.conn].endpoint = "global"
              /\ global_messages' = global_messages

\* C18: a chat_message event with empty content, or one whose persistence
\* fails, is answered with an error event on the originating connection; the
\* connection stays open, no chat_message or conversation_update is sent to any
\* group, and in the empty-content case no Message is created.
C18_RefusedSendAnsweredWithError ==
    [][ SendRefused =>
          LET c == last'.conn
          IN /\ Len(delivered'[c]) = 1
             /\ delivered'[c][1].type = "error"
             /\ \A d \in Conns \ {c} : delivered'[d] = <<>>
             /\ sent' = <<>>
             /\ conns' = conns
             /\ conns'[c].status = "open"
             /\ groups' = groups
             /\ last'.body = ""
                   => /\ messages' = messages
                      /\ global_messages' = global_messages
      ]_vars

\* a chat_message with content failed to persist while a second connection
\* was open on the same conversation: the sender got the error event and the
\* other connection got nothing
C18_Witness ==
    /\ last.op = "chat_message" /\ ~last.ok
    /\ last.body # ""
    /\ conns[last.conn].endpoint = "chat"
    /\ HasType(delivered[last.conn], "error")
    /\ \E d \in Conns \ {last.conn} :
          /\ conns[d].status = "open"
          /\ conns[d].endpoint = "chat"
          /\ conns[d].conv = last.conv
          /\ delivered[d] = <<>>

\* an inbound event that lacks a field its type requires
MissingField(op) ==
    \/ op.op = "mark_read" /\ op.conn # 0 /\ op.ref = 0
    \/ op.op \in {"call_accept", "call_reject", "call_end"} /\ op.ref = 0
    \/ op.op = "call_initiate" /\ op.body = ""
    \/ op.op \in SignalTypes /\ (op.conv = "" \/ op.body = "")

\* C19: an inbound event that lacks a field its type requires (message_id for
\* mark_read; call_id for call_accept, call_reject, call_end; receiver_id for
\* call_initiate; target_user_id and signal_data for the webrtc events) is
\* answered with an error event on the same connection, leaves the connection
\* open, changes no persisted state and sends nothing to any group.
C19_MissingFieldAnsweredWithError ==
    [][ MissingField(last') => ErrorReplyOnly(last'.conn) ]_vars

\* C20: a webrtc_offer, webrtc_answer or webrtc_ice_candidate event with
\* target user T and payload P from user S delivers one event of the same type,
\* with signal_data P and from_user_id S, to exactly the connections in group
\* user_call_<T>, and changes no Call or other persisted record.
C20_SignalRelayedToTarget ==
    [][ (last'.op \in SignalTypes /\ last'.conv # "" /\ last'.body # "")
            => LET signal == Ev(last'.op, last'.user, "", 0, last'.body)
               IN /\ \A d \in Conns :
                        delivered'[d] =
                            IF UserCallGroup(last'.conv) \in GroupsOf(d)
                                THEN <<signal>> ELSE <<>>
                  /\ UNCHANGED <<messages, last_message, global_messages, calls>>
      ]_vars

\* while a Call exists, a signal was relayed to another user who has a
\* connection open: that connection got it, tagged with the sender, and the
\* sender's connection got nothing
C20_Witness ==
    /\ last.op \in SignalTypes /\ last.ok
    /\ calls # <<>>
    /\ last.conv # last.user
    /\ delivered[last.conn] = <<>>
    /\ \E d \in Conns \ {last.conn} :
          /\ conns[d].user = last.conv
          /\ delivered[d] = <<Ev(last.op, last.user, "", 0, last.body)>>

\* the Calls of conversation cid that are initiated, ringing or accepted
NonTerminalCalls(cid) ==
    {id \in CallRows : calls[id].conversation = cid /\ calls[id].status \notin Terminal}

\* C22: in every reachable state each conversation has at most one Call whose
\* status is non-terminal, for any sequence of call_initiate events from its
\* participants.
C22_OneLiveCallPerConversation ==
    \A cid \in Convs : Cardinality(NonTerminalCalls(cid)) <= 1

\* C23: after a call_end the Call's duration is the whole number of seconds
\* from answered_at to ended_at if the call was answered and 0 if it was never
\* answered; after any sequence of call_accept, call_reject and call_end the
\* duration is never negative.
C23_DurationFromAnswerToEnd ==
    /\ [](\A id \in CallRows : calls[id].duration >= 0)
    /\ [][ (last'.op = "call_end" /\ last'.ref \in CallRows)
              => LET before == calls[last'.ref]
                     after == calls'[last'.ref]
                 IN /\ after.ended_at = now'
                    /\ after.duration =
                          IF before.answered_at # 0
                              THEN after.ended_at - before.answered_at
                              ELSE 0
         ]_vars

\* a Call that was answered at one time was ended at a later time
C23_Witness ==
    /\ last.op = "call_end" /\ last.ok
    /\ calls[last.ref].answered_at # 0
    /\ calls[last.ref].ended_at > calls[last.ref].answered_at
    /\ calls[last.ref].duration = calls[last.ref].ended_at - calls[last.ref].answered_at

\* C25: a call_accept, call_reject or call_end event changes a Call only when
\* the user of the sending connection is the Call's caller or receiver; an
\* event from any other authenticated user leaves the Call unchanged.
C25_OnlyPartiesChangeCall ==
    [][ \A id \in CallRows :
            ( /\ last'.op \in {"call_accept", "call_reject", "call_end"}
              /\ last'.user # calls[id].caller
              /\ last'.user # calls[id].receiver )
                => calls'[id] = calls[id]
      ]_vars

\* C26: a mark_read event received on a connection admitted to conversation C
\* sets the read flag only of messages that belong to C; a message of any
\* other conversation is never changed by it.
C26_MarkReadStaysInConversation ==
    [][ \A mid \in MessageRows :
            ( /\ last'.op = "mark_read" /\ last'.body = "ws"
              /\ messages[mid].conversation # last'.conv )
                => messages'[mid] = messages[mid]
      ]_vars

\* C28: every Call created by call_initiate has a receiver that is a
\* participant of the Call's conversation and is not the caller.
C28_ReceiverIsOtherParticipant ==
    \A id \in CallRows :
        /\ calls[id].receiver \in participants(calls[id].conversation)
        /\ calls[id].receiver # calls[id].caller

\* C29: a chat_message event carrying a message of conversation C, and a
\* conversation_update event for C, is delivered only to connections whose
\* authenticated user is a participant of C, for every sequence of connects,
\* disconnects and sends (WebSocket or REST).
C29_MessagesReachParticipantsOnly ==
    \A c \in Conns : \A i \in 1..Len(delivered[c]) :
        delivered[c][i].type \in {"chat_message", "conversation_update"}
            => /\ delivered[c][i].conv \in Convs
               /\ conns[c].user \in participants(delivered[c][i].conv)

\* a message sent over REST reached a participant's connection while the
\* connection of a user outside the conversation was open and got nothing
C29_Witness ==
    /\ last.op = "send_message" /\ last.ok
    /\ \E c, d \in Conns :
          /\ HasType(delivered[c], "chat_message")
          /\ HasType(delivered[c], "conversation_update")
          /\ conns[d].status = "open"
          /\ conns[d].user \notin participants(last.conv)
          /\ delivered[d] = <<>>

\* the groups the endpoint of handle c assigns to it, whatever its status
AssignedGroups(c) ==
    CASE conns[c].endpoint = "chat" ->
             {ChatGroup(conns[c].conv), UserGroup(conns[c].user)}
      [] conns[c].endpoint = "global" -> {GlobalChatGroup}
      [] conns[c].endpoint = "call" ->
             (IF conns[c].conv # GlobalId THEN {CallGroup(conns[c].conv)} ELSE {})
             \cup {UserCallGroup(conns[c].user)}
      [] OTHER -> {}

MemberOf(c) == {n \in GroupNames : c \in groups[n]}

\* C21: in every reachable state, the states between the awaits of connect and
\* of disconnect included, a connection is in every group its endpoint assigns
\* to it or in no group, and it is in a group only while it is accepted.
C21_MembershipAllOrNothing ==
    \A c \in Conns :
        /\ MemberOf(c) = AssignedGroups(c) \/ MemberOf(c) = {}
        /\ MemberOf(c) # {} => conns[c].status = "open"

\* the Messages of a conversation, and the one created last
MessagesOf(cid) == {id \in 1..Len(messages) : messages[id].conversation = cid}
NewestOf(cid) == CHOOSE id \in MessagesOf(cid) : \A other \in MessagesOf(cid) : other <= id

\* C24: once every chat_message that was sent to a conversation has been
\* handled, the conversation's last-message pointer references the Message
\* created last, whatever the interleaving of the senders.
C24_PointerIsNewestMessage ==
    (\A c \in Conns : IsIdle(c))
        => \A cid \in Convs :
              MessagesOf(cid) # {} => last_message[cid] = NewestOf(cid)

\* C27: a connection receives the chat_message events of a conversation in the
\* order in which the messages were persisted: when one is delivered, no
\* message persisted before it in the conversation is still to be fanned out.
C27_FanoutInPersistOrder ==
    [][ \A d \in Conns : \A i \in 1..Len(delivered'[d]) :
            delivered'[d][i].type = "chat_message"
                => \A c \in Conns :
                      (inflight'[c].pc \in {"save_pointer", "group_send"}
                          /\ conns[c].conv = delivered'[d][i].conv)
                          => inflight'[c].val > delivered'[d][i].ref
      ]_vars

\* the connected handles of stream sid that identified as viewers
Viewers(sid) ==
    {c \in Conns : /\ IsOpen(c, "livestream")
                   /\ conns[c].conv = sid
                   /\ stream_conns[c].identified = "viewer"}

\* C30: once every identify and disconnect of the connections of a livestream
\* has been handled, the stored viewer_count is the number of connected
\* connections of the stream that identified as viewers.
C30_ViewerCountIsConnectedViewers ==
    (\A c \in Conns : IsIdle(c))
        => \A sid \in Streams :
              livestream[sid].viewer_count = Cardinality(Viewers(sid))

====
